---- MODULE Spec2Model ----
(***************************************************************************)
(* Session relay server of audio-live (server.cjs): the activeSessions     *)
(* registry, the socket.io rooms the handlers join and broadcast to, the   *)
(* close-session removal timers, and one action per socket event handler.  *)
(* Every handler runs to completion (Node's single event loop), so each    *)
(* handler is one atomic action.                                           *)
(***************************************************************************)
EXTENDS Integers, Sequences, FiniteSets, TLC

VARIABLES
    nextSocket,      \* number of connections accepted so far (socket ids are 1..nextSocket)
    connected,       \* socket ids whose connection is open
    activeSessions,  \* the Map: sequence of [id, session] entries in insertion order
    rooms,           \* socket.io adapter: room name -> set of socket ids in the room
    timers,          \* pending setTimeout callbacks of close-session, in scheduling order
    clock,           \* logical time: number of session objects created so far
    emitted,         \* events the last handler emitted, in emission order
    last,            \* the event the last handler processed (NoOp: none under observation)
    pre,             \* activeSessions as it was when the last handler started
    pages            \* socket id -> the browser page (React component) that owns the socket

vars == <<nextSocket, connected, activeSessions, rooms, timers, clock, emitted, last, pre,
         pages>>

\* ---- bounds of the model ------------------------------------------------
NumSockets == 3
MaxClock == 2
MaxTimers == 2

Sockets == 1..NumSockets
NoId == ""
\* the ids create-session, join-session and check-session are sent with
SessionIds == {"room1", "room2"}
\* the other events may also arrive without a session id (a falsy argument)
InputIds == SessionIds \cup {NoId}
Payloads == {"X", "Y"}

\* ---- JavaScript Set and Map (insertion ordered) ---------------------------
Range(s) == {s[i] : i \in 1..Len(s)}

SetHas(s, x) == x \in Range(s)

\* participants kept in an array: push appends a value that is already there
SetAdd_Push(s, x) == Append(s, x)

SetAdd(s, x) == IF SetHas(s, x) THEN s ELSE Append(s, x)

SetDelete(s, x) == SelectSeq(s, LAMBDA y : y # x)

MapHas(m, id) == \E i \in 1..Len(m) : m[i].id = id

MapIndex(m, id) == CHOOSE i \in 1..Len(m) : m[i].id = id

MapGet(m, id) == m[MapIndex(m, id)].session

MapSet(m, id, s) ==
    IF MapHas(m, id)
    THEN [m EXCEPT ![MapIndex(m, id)] = [id |-> id, session |-> s]]
    ELSE Append(m, [id |-> id, session |-> s])

MapDelete(m, id) == SelectSeq(m, LAMBDA e : e.id # id)

MapKeys(m) == [i \in 1..Len(m) |-> m[i].id]

\* JavaScript truthiness of a session id argument
Truthy(sessionId) == sessionId # NoId

\* ---- session objects ------------------------------------------------------
\* a session object whose participants set starts empty: the creator is not added
NewSession_NoMember(socket, now) ==
    [host |-> socket, participants |-> <<>>, active |-> TRUE, createdAt |-> now]

NewSession(socket, now) ==
    [host |-> socket, participants |-> <<socket>>, active |-> TRUE, createdAt |-> now]

\* ---- outbound events ------------------------------------------------------
\* an emitted event: its name, the sockets it is delivered to, the room it was addressed
\* to (NoId when emitted on one socket) and its arguments
Ev(name, to, room) ==
    [ev |-> name, to |-> to, room |-> room, who |-> 0, sid |-> NoId, role |-> "",
     status |-> "", list |-> <<>>, payload |-> ""]

\* io.emit(...) in place of socket.emit(...): to every connection
SocketEmit_All(socket) == Sockets

\* socket.emit(...): to the socket itself
SocketEmit(socket) == {socket}

\* a broadcast that forgets to leave the sender out
SocketTo_IncludingSender(rm, socket, room) == IF room \in DOMAIN rm THEN rm[room] ELSE {}

\* socket.to(room).emit(...): everyone in the room except the socket
SocketTo(rm, socket, room) == IF room \in DOMAIN rm THEN rm[room] \ {socket} ELSE {}

\* io.to(room).emit(...): everyone in the room
IoTo(rm, room) == IF room \in DOMAIN rm THEN rm[room] ELSE {}

\* socket.join(room)
SocketJoin(rm, socket, room) == [rm EXCEPT ![room] = @ \cup {socket}]

\* socket.io removes a closing socket from every room before 'disconnect' is emitted
LeaveAll(rm, socket) == [r \in DOMAIN rm |-> rm[r] \ {socket}]

\* a pending setTimeout callback of close-session. sessionId is what the closure holds;
\* scheduledFor (the createdAt of the session that was closed), emptied (that session has
\* since lost its last member) and reused (a session object was created for the id since)
\* are history kept for the properties, not program state
NoTimer == [sessionId |-> NoId, scheduledFor |-> 0, emptied |-> FALSE, reused |-> FALSE]

Op(name, socket, sessionId) ==
    [op |-> name, socket |-> socket, sessionId |-> sessionId, payload |-> "",
     timer |-> NoTimer, threw |-> FALSE]

NoOp == Op("none", 0, NoId)

Members(m, id) == IF MapHas(m, id) THEN Range(MapGet(m, id).participants) ELSE {}

\* history: the session a pending timer was scheduled for had members in before and has
\* none in after
MarkEmptied(ts, before, after) ==
    [i \in 1..Len(ts) |->
        IF /\ MapHas(before, ts[i].sessionId)
           /\ MapGet(before, ts[i].sessionId).createdAt = ts[i].scheduledFor
           /\ Members(after, ts[i].sessionId) = {}
        THEN [ts[i] EXCEPT !.emptied = TRUE] ELSE ts[i]]

\* history: a session object was created for id while these timers were pending
MarkReused(ts, id) ==
    [i \in 1..Len(ts) |->
        IF ts[i].sessionId = id THEN [ts[i] EXCEPT !.reused = TRUE] ELSE ts[i]]

\* ---- observation ------------------------------------------------------------
\* One handler run per behaviour is put under observation: its event, the events it
\* emitted and the registry it started from are recorded, and the behaviour ends there.
\* Every handler run of every reachable state is observed in some behaviour.
Unobserved == last = NoOp

Record(op, out) ==
    \E watch \in BOOLEAN :
        /\ last' = IF watch THEN op ELSE NoOp
        /\ emitted' = IF watch THEN out ELSE <<>>
        /\ pre' = IF watch THEN activeSessions ELSE <<>>

\* ---- browser pages: component state -------------------------------------------
\* a message a page has emitted on its socket and the server has not handled yet
Msg(name, sessionId) == [ev |-> name, sid |-> sessionId]

\* The state of the component that owns a socket. The fields named as in the source are
\* its React state and refs as first rendered; the others are:
\*   component   "Index", "RecordingPage", or "none" while the socket id is unused
\*   mounted     FALSE once the effect's cleanup has run (it calls socket.disconnect())
\*   sessionId   Index: newSessionId of createNewSession; RecordingPage: the route parameter
\*   cameFrom    the socket of the Index page whose navigate() mounted this page (0: a link)
\*   navigating  Index: navigate() has been called
\*   outbox      messages emitted and not yet handled by the server, oldest first
\*   inbox       events delivered to the socket whose handlers have not run, oldest first
\*   handlerIsRecording  isRecording as seen by the handlers the socket effect registered
\*   mediaRecorder       "none" (mediaRecorderRef.current is null) or its state
\*   stopTimers  pending 300 ms callbacks of stopRecording
\*   recordings, stopsRun  history: runs of startRecording, and runs of stopRecording that
\*               got past its duplicate check
NoPage ==
    [component |-> "none", mounted |-> FALSE, sessionId |-> NoId, cameFrom |-> 0,
     navigating |-> FALSE, outbox |-> <<>>, inbox |-> <<>>,
     isHost |-> FALSE, connectedToRoom |-> FALSE, activeSessionId |-> NoId,
     isRecording |-> FALSE, handlerIsRecording |-> FALSE, isProcessingStop |-> FALSE,
     mediaRecorder |-> "none", stopTimers |-> 0, recordings |-> 0, stopsRun |-> 0]

Init ==
    /\ pages = [s \in Sockets |-> NoPage]
    /\ nextSocket = 0
    /\ connected = {}
    /\ activeSessions = <<>>
    /\ rooms = [r \in SessionIds |-> {}]
    /\ timers = <<>>
    /\ clock = 0
    /\ emitted = <<>>
    /\ last = NoOp
    /\ pre = <<>>

\* io.on('connection'): the n-th connection gets socket id n
Connect ==
    /\ Unobserved
    /\ nextSocket < NumSockets
    /\ nextSocket' = nextSocket + 1
    /\ connected' = connected \cup {nextSocket + 1}
    /\ Record(Op("connection", nextSocket + 1, NoId), <<>>)
    /\ UNCHANGED <<activeSessions, rooms, timers, clock>>

\* socket.on('create-session'): the registry after the handler
CreateSessionSet(m, socket, sessionId, now) == MapSet(m, sessionId, NewSession(socket, now))

\* socket.on('create-session')
CreateSession(socket, sessionId) ==
    /\ Unobserved
    /\ socket \in connected
    /\ clock < MaxClock
    /\ clock' = clock + 1
    /\ activeSessions' = CreateSessionSet(activeSessions, socket, sessionId, clock + 1)
    /\ rooms' = SocketJoin(rooms, socket, sessionId)
    /\ Record(Op("create-session", socket, sessionId),
              << [Ev("connection-successful", SocketEmit(socket), NoId)
                    EXCEPT !.sid = sessionId, !.role = "host", !.status = "created"] >>)
    /\ timers' = MarkReused(timers, sessionId)
    /\ UNCHANGED <<nextSocket, connected>>

\* a check-session that only asks whether the id is in the registry
CheckSessionExists_IgnoreActive(m, sessionId) == MapHas(m, sessionId)

\* socket.on('check-session'): the condition of its if
CheckSessionExists(m, sessionId) == MapHas(m, sessionId) /\ MapGet(m, sessionId).active

\* socket.on('check-session'): the callback's argument is recorded as a reply event
CheckSession(socket, sessionId) ==
    /\ Unobserved
    /\ socket \in connected
    /\ Record(Op("check-session", socket, sessionId),
              << [Ev("check-session-reply", SocketEmit(socket), NoId)
                    EXCEPT !.sid = sessionId,
                           !.status = IF CheckSessionExists(activeSessions, sessionId)
                                      THEN "exists" ELSE "absent"] >>)
    /\ UNCHANGED <<nextSocket, connected, activeSessions, rooms, timers, clock>>

\* a join-session that does not look at session.active: a closed session is joined
\* like an open one
JoinSession_NoActiveCheck(socket, sessionId) ==
    /\ Unobserved
    /\ socket \in connected
    /\ UNCHANGED <<nextSocket, connected>>
    /\ IF MapHas(activeSessions, sessionId)
       THEN LET session == MapGet(activeSessions, sessionId)
                joinedRooms == SocketJoin(rooms, socket, sessionId)
                members == SetAdd(session.participants, socket)
            IN /\ rooms' = joinedRooms
               /\ activeSessions' = MapSet(activeSessions, sessionId,
                                           [session EXCEPT !.participants = members])
               /\ Record(Op("join-session", socket, sessionId),
                    << [Ev("connection-successful", SocketEmit(socket), NoId)
                          EXCEPT !.sid = sessionId, !.role = "participant",
                                 !.who = session.host],
                       [Ev("participant-joined",
                           SocketTo(joinedRooms, socket, sessionId), sessionId)
                          EXCEPT !.who = socket],
                       [Ev("participants-list", SocketEmit(socket), NoId)
                          EXCEPT !.list = SetDelete(members, socket)] >>)
               /\ UNCHANGED <<clock, timers>>
       ELSE /\ clock < MaxClock
            /\ clock' = clock + 1
            /\ activeSessions' = MapSet(activeSessions, sessionId, NewSession(socket, clock + 1))
            /\ rooms' = SocketJoin(rooms, socket, sessionId)
            /\ Record(Op("join-session", socket, sessionId),
                      << [Ev("connection-successful", SocketEmit(socket), NoId)
                            EXCEPT !.sid = sessionId, !.role = "host",
                                   !.status = "created-on-join"] >>)
            /\ timers' = MarkReused(timers, sessionId)

\* socket.on('join-session')
JoinSession(socket, sessionId) ==
    /\ Unobserved
    /\ socket \in connected
    /\ UNCHANGED <<nextSocket, connected>>
    /\ IF MapHas(activeSessions, sessionId)
       THEN LET session == MapGet(activeSessions, sessionId) IN
            IF ~session.active
            THEN /\ Record(Op("join-session", socket, sessionId),
                           << [Ev("session-error", SocketEmit(socket), NoId)
                                 EXCEPT !.status = "SESSION_CLOSED"] >>)
                 /\ UNCHANGED <<activeSessions, rooms, clock, timers>>
            ELSE LET joinedRooms == SocketJoin(rooms, socket, sessionId)
                     members == SetAdd(session.participants, socket)
                 IN /\ rooms' = joinedRooms
                    /\ activeSessions' = MapSet(activeSessions, sessionId,
                                                [session EXCEPT !.participants = members])
                    /\ Record(Op("join-session", socket, sessionId),
                         << [Ev("connection-successful", SocketEmit(socket), NoId)
                               EXCEPT !.sid = sessionId, !.role = "participant",
                                      !.who = session.host],
                            [Ev("participant-joined",
                                SocketTo(joinedRooms, socket, sessionId), sessionId)
                               EXCEPT !.who = socket],
                            [Ev("participants-list", SocketEmit(socket), NoId)
                               EXCEPT !.list = SetDelete(members, socket)] >>)
                    /\ UNCHANGED <<clock, timers>>
       ELSE /\ clock < MaxClock
            /\ clock' = clock + 1
            /\ activeSessions' = MapSet(activeSessions, sessionId, NewSession(socket, clock + 1))
            /\ rooms' = SocketJoin(rooms, socket, sessionId)
            /\ Record(Op("join-session", socket, sessionId),
                      << [Ev("connection-successful", SocketEmit(socket), NoId)
                            EXCEPT !.sid = sessionId, !.role = "host",
                                   !.status = "created-on-join"] >>)
            /\ timers' = MarkReused(timers, sessionId)

\* handleParticipantLeaving without the host reassignment
handleParticipantLeaving_KeepHost(m, rm, socketId, sessionId) ==
    IF ~MapHas(m, sessionId) THEN [map |-> m, out |-> <<>>]
    ELSE LET session == MapGet(m, sessionId)
             remaining == SetDelete(session.participants, socketId)
             left == [Ev("participant-left", IoTo(rm, sessionId), sessionId)
                        EXCEPT !.who = socketId]
         IN IF Len(remaining) = 0
            THEN [map |-> MapDelete(m, sessionId), out |-> <<left>>]
            ELSE [map |-> MapSet(m, sessionId, [session EXCEPT !.participants = remaining]),
                  out |-> <<left>>]

\* handleParticipantLeaving that leaves an emptied session in the registry
handleParticipantLeaving_KeepEmpty(m, rm, socketId, sessionId) ==
    IF ~MapHas(m, sessionId) THEN [map |-> m, out |-> <<>>]
    ELSE LET session == MapGet(m, sessionId)
             remaining == SetDelete(session.participants, socketId)
             left == [Ev("participant-left", IoTo(rm, sessionId), sessionId)
                        EXCEPT !.who = socketId]
         IN IF session.host = socketId /\ Len(remaining) > 0
            THEN LET newHost == remaining[1] IN
                 [map |-> MapSet(m, sessionId,
                                 [session EXCEPT !.participants = remaining, !.host = newHost]),
                  out |-> <<left, [Ev("new-host", IoTo(rm, sessionId), sessionId)
                                     EXCEPT !.who = newHost]>>]
            ELSE [map |-> MapSet(m, sessionId, [session EXCEPT !.participants = remaining]),
                  out |-> <<left>>]

\* handleParticipantLeaving that picks the last remaining participant as the new host
handleParticipantLeaving_LastAsHost(m, rm, socketId, sessionId) ==
    IF ~MapHas(m, sessionId) THEN [map |-> m, out |-> <<>>]
    ELSE LET session == MapGet(m, sessionId)
             remaining == SetDelete(session.participants, socketId)
             left == [Ev("participant-left", IoTo(rm, sessionId), sessionId)
                        EXCEPT !.who = socketId]
         IN IF Len(remaining) = 0
            THEN [map |-> MapDelete(m, sessionId), out |-> <<left>>]
            ELSE IF session.host = socketId /\ Len(remaining) > 0
            THEN LET newHost == remaining[Len(remaining)] IN
                 [map |-> MapSet(m, sessionId,
                                 [session EXCEPT !.participants = remaining, !.host = newHost]),
                  out |-> <<left, [Ev("new-host", IoTo(rm, sessionId), sessionId)
                                     EXCEPT !.who = newHost]>>]
            ELSE [map |-> MapSet(m, sessionId, [session EXCEPT !.participants = remaining]),
                  out |-> <<left>>]

\* handleParticipantLeaving that announces the new host before the departure
handleParticipantLeaving_NewHostFirst(m, rm, socketId, sessionId) ==
    IF ~MapHas(m, sessionId) THEN [map |-> m, out |-> <<>>]
    ELSE LET session == MapGet(m, sessionId)
             remaining == SetDelete(session.participants, socketId)
             left == [Ev("participant-left", IoTo(rm, sessionId), sessionId)
                        EXCEPT !.who = socketId]
         IN IF Len(remaining) = 0
            THEN [map |-> MapDelete(m, sessionId), out |-> <<left>>]
            ELSE IF session.host = socketId /\ Len(remaining) > 0
            THEN LET newHost == remaining[1] IN
                 [map |-> MapSet(m, sessionId,
                                 [session EXCEPT !.participants = remaining, !.host = newHost]),
                  out |-> <<[Ev("new-host", IoTo(rm, sessionId), sessionId)
                               EXCEPT !.who = newHost], left>>]
            ELSE [map |-> MapSet(m, sessionId, [session EXCEPT !.participants = remaining]),
                  out |-> <<left>>]

\* function handleParticipantLeaving(socketId, sessionId): the registry and the events after it
handleParticipantLeaving(m, rm, socketId, sessionId) ==
    IF ~MapHas(m, sessionId) THEN [map |-> m, out |-> <<>>]
    ELSE LET session == MapGet(m, sessionId)
             remaining == SetDelete(session.participants, socketId)
             left == [Ev("participant-left", IoTo(rm, sessionId), sessionId)
                        EXCEPT !.who = socketId]
         IN IF Len(remaining) = 0
            THEN [map |-> MapDelete(m, sessionId), out |-> <<left>>]
            ELSE IF session.host = socketId /\ Len(remaining) > 0
            THEN LET newHost == remaining[1] IN
                 [map |-> MapSet(m, sessionId,
                                 [session EXCEPT !.participants = remaining, !.host = newHost]),
                  out |-> <<left, [Ev("new-host", IoTo(rm, sessionId), sessionId)
                                     EXCEPT !.who = newHost]>>]
            ELSE [map |-> MapSet(m, sessionId, [session EXCEPT !.participants = remaining]),
                  out |-> <<left>>]

\* socket.on('leave-session'): the registry and the events after it
LeaveSessionResult(m, rm, socket, sessionId) ==
    IF Truthy(sessionId) /\ MapHas(m, sessionId)
    THEN handleParticipantLeaving(m, rm, socket, sessionId)
    ELSE [map |-> m, out |-> <<>>]

\* socket.on('leave-session')
LeaveSession(socket, sessionId) ==
    /\ Unobserved
    /\ socket \in connected
    /\ UNCHANGED <<nextSocket, connected, rooms, clock>>
    /\ IF Truthy(sessionId) /\ MapHas(activeSessions, sessionId)
       THEN LET r == handleParticipantLeaving(activeSessions, rooms, socket, sessionId) IN
            /\ activeSessions' = r.map
            /\ timers' = MarkEmptied(timers, activeSessions, r.map)
            /\ Record(Op("leave-session", socket, sessionId), r.out)
       ELSE /\ Record(Op("leave-session", socket, sessionId), <<>>)
            /\ UNCHANGED <<activeSessions, timers>>

\* a close-session that deletes the session at once, with no grace period
CloseSession_DeleteNow(socket, sessionId) ==
    /\ Unobserved
    /\ socket \in connected
    /\ UNCHANGED <<nextSocket, connected, rooms, clock, timers>>
    /\ IF Truthy(sessionId) /\ MapHas(activeSessions, sessionId)
       THEN IF MapGet(activeSessions, sessionId).host = socket
            THEN /\ activeSessions' = MapDelete(activeSessions, sessionId)
                 /\ Record(Op("close-session", socket, sessionId),
                           << [Ev("session-closed", IoTo(rooms, sessionId), sessionId)
                                 EXCEPT !.sid = sessionId] >>)
            ELSE /\ Record(Op("close-session", socket, sessionId),
                           << [Ev("session-error", SocketEmit(socket), NoId)
                                 EXCEPT !.status = "NOT_SESSION_HOST"] >>)
                 /\ UNCHANGED activeSessions
       ELSE /\ Record(Op("close-session", socket, sessionId), <<>>)
            /\ UNCHANGED activeSessions

\* a close-session that lets any connection close the session, host or not
CloseSession_AnyoneCloses(socket, sessionId) ==
    /\ Unobserved
    /\ socket \in connected
    /\ UNCHANGED <<nextSocket, connected, rooms, clock>>
    /\ IF Truthy(sessionId) /\ MapHas(activeSessions, sessionId)
       THEN LET session == MapGet(activeSessions, sessionId) IN
            /\ Len(timers) < MaxTimers
            /\ activeSessions' = MapSet(activeSessions, sessionId,
                                        [session EXCEPT !.active = FALSE])
            /\ timers' = Append(timers, [sessionId |-> sessionId,
                                         scheduledFor |-> session.createdAt,
                                         emptied |-> FALSE, reused |-> FALSE])
            /\ Record(Op("close-session", socket, sessionId),
                      << [Ev("session-closed", IoTo(rooms, sessionId), sessionId)
                            EXCEPT !.sid = sessionId] >>)
       ELSE /\ Record(Op("close-session", socket, sessionId), <<>>)
            /\ UNCHANGED <<activeSessions, timers>>

\* socket.on('close-session'), the setTimeout callback excluded
CloseSession(socket, sessionId) ==
    /\ Unobserved
    /\ socket \in connected
    /\ UNCHANGED <<nextSocket, connected, rooms, clock>>
    /\ IF Truthy(sessionId) /\ MapHas(activeSessions, sessionId)
       THEN LET session == MapGet(activeSessions, sessionId) IN
            IF session.host = socket
            THEN /\ Len(timers) < MaxTimers
                 /\ activeSessions' = MapSet(activeSessions, sessionId,
                                             [session EXCEPT !.active = FALSE])
                 /\ timers' = Append(timers, [sessionId |-> sessionId,
                                              scheduledFor |-> session.createdAt,
                                              emptied |-> FALSE, reused |-> FALSE])
                 /\ Record(Op("close-session", socket, sessionId),
                           << [Ev("session-closed", IoTo(rooms, sessionId), sessionId)
                                 EXCEPT !.sid = sessionId] >>)
            ELSE /\ Record(Op("close-session", socket, sessionId),
                           << [Ev("session-error", SocketEmit(socket), NoId)
                                 EXCEPT !.status = "NOT_SESSION_HOST"] >>)
                 /\ UNCHANGED <<activeSessions, timers>>
       ELSE /\ Record(Op("close-session", socket, sessionId), <<>>)
            /\ UNCHANGED <<activeSessions, timers>>

\* a callback that reads a field of activeSessions.get(sessionId) without the has() guard
\* throws on an absent id
TimerCallback_Unguarded(m, sessionId) ==
    IF MapHas(m, sessionId)
    THEN [map |-> MapDelete(m, sessionId), threw |-> FALSE]
    ELSE [map |-> m, threw |-> TRUE]

\* a callback that deletes nothing
TimerCallback_Never(m, sessionId) == [map |-> m, threw |-> FALSE]

\* the setTimeout callback of close-session: the registry after it, and whether it threw
TimerCallback(m, sessionId) ==
    IF MapHas(m, sessionId)
    THEN [map |-> MapDelete(m, sessionId), threw |-> FALSE]
    ELSE [map |-> m, threw |-> FALSE]

\* the 5000 ms timers of close-session fire in the order they were scheduled
TimerFire ==
    /\ Unobserved
    /\ timers # <<>>
    /\ LET r == TimerCallback(activeSessions, Head(timers).sessionId) IN
       /\ activeSessions' = r.map
       /\ Record([Op("timeout", 0, Head(timers).sessionId)
                    EXCEPT !.timer = Head(timers), !.threw = r.threw], <<>>)
    /\ timers' = Tail(timers)
    /\ UNCHANGED <<nextSocket, connected, rooms, clock>>

\* an audio-chunk handler that only refuses a session it finds closed
\* (activeSessions.get(sessionId)?.active === false) and so forwards for an absent id
AudioChunkOut_NoHasCheck(m, rm, socket, audioChunk, sessionId) ==
    IF ~Truthy(sessionId) \/ (MapHas(m, sessionId) /\ ~MapGet(m, sessionId).active)
    THEN <<>>
    ELSE << [Ev("audio-chunk", SocketTo(rm, socket, sessionId), sessionId)
               EXCEPT !.payload = audioChunk] >>

\* socket.on('audio-chunk'): the events it emits
AudioChunkOut(m, rm, socket, audioChunk, sessionId) ==
    IF ~Truthy(sessionId) \/ ~MapHas(m, sessionId) \/ ~MapGet(m, sessionId).active
    THEN <<>>
    ELSE << [Ev("audio-chunk", SocketTo(rm, socket, sessionId), sessionId)
               EXCEPT !.payload = audioChunk] >>

\* socket.on('audio-chunk')
AudioChunk(socket, audioChunk, sessionId) ==
    /\ Unobserved
    /\ socket \in connected
    /\ Record([Op("audio-chunk", socket, sessionId) EXCEPT !.payload = audioChunk],
              AudioChunkOut(activeSessions, rooms, socket, audioChunk, sessionId))
    /\ UNCHANGED <<nextSocket, connected, activeSessions, rooms, timers, clock>>

\* socket.on('recording-started')
RecordingStarted(socket, sessionId) ==
    /\ Unobserved
    /\ socket \in connected
    /\ Record(Op("recording-started", socket, sessionId),
              IF Truthy(sessionId) /\ MapHas(activeSessions, sessionId)
              THEN << [Ev("participant-recording",
                          SocketTo(rooms, socket, sessionId), sessionId)
                         EXCEPT !.who = socket] >>
              ELSE <<>>)
    /\ UNCHANGED <<nextSocket, connected, activeSessions, rooms, timers, clock>>

\* a stop-recording handler that also marks the session closed
StopRecording_ClosesSession(socket, sessionId) ==
    /\ Unobserved
    /\ socket \in connected
    /\ Record(Op("stop-recording", socket, sessionId),
              IF Truthy(sessionId) /\ MapHas(activeSessions, sessionId)
              THEN << Ev("stop-recording", IoTo(rooms, sessionId), sessionId) >>
              ELSE <<>>)
    /\ activeSessions' = IF Truthy(sessionId) /\ MapHas(activeSessions, sessionId)
                         THEN MapSet(activeSessions, sessionId,
                                     [MapGet(activeSessions, sessionId) EXCEPT !.active = FALSE])
                         ELSE activeSessions
    /\ UNCHANGED <<nextSocket, connected, rooms, timers, clock>>

\* socket.on('stop-recording')
StopRecording(socket, sessionId) ==
    /\ Unobserved
    /\ socket \in connected
    /\ Record(Op("stop-recording", socket, sessionId),
              IF Truthy(sessionId) /\ MapHas(activeSessions, sessionId)
              THEN << Ev("stop-recording", IoTo(rooms, sessionId), sessionId) >>
              ELSE <<>>)
    /\ UNCHANGED <<nextSocket, connected, activeSessions, rooms, timers, clock>>

\* a disconnect handler whose enumeration ends when an entry is deleted under it
RECURSIVE DisconnectEach_StopOnDelete(_, _, _, _)
DisconnectEach_StopOnDelete(m, rm, socket, keys) ==
    IF keys = <<>> THEN [map |-> m, out |-> <<>>]
    ELSE LET sessionId == Head(keys)
             step == IF MapHas(m, sessionId) /\ SetHas(MapGet(m, sessionId).participants, socket)
                     THEN handleParticipantLeaving(m, rm, socket, sessionId)
                     ELSE [map |-> m, out |-> <<>>]
         IN IF MapHas(m, sessionId) /\ ~MapHas(step.map, sessionId)
            THEN step
            ELSE LET rest == DisconnectEach_StopOnDelete(step.map, rm, socket, Tail(keys))
                 IN [map |-> rest.map, out |-> step.out \o rest.out]

\* a disconnect handler that stops at the first session it finds the socket in
RECURSIVE DisconnectEach_FirstOnly(_, _, _, _)
DisconnectEach_FirstOnly(m, rm, socket, keys) ==
    IF keys = <<>> THEN [map |-> m, out |-> <<>>]
    ELSE IF MapHas(m, Head(keys)) /\ SetHas(MapGet(m, Head(keys)).participants, socket)
         THEN handleParticipantLeaving(m, rm, socket, Head(keys))
         ELSE DisconnectEach_FirstOnly(m, rm, socket, Tail(keys))

\* activeSessions.forEach of the disconnect handler, over the keys still to visit
RECURSIVE DisconnectEach(_, _, _, _)
DisconnectEach(m, rm, socket, keys) ==
    IF keys = <<>> THEN [map |-> m, out |-> <<>>]
    ELSE LET sessionId == Head(keys)
             step == IF MapHas(m, sessionId) /\ SetHas(MapGet(m, sessionId).participants, socket)
                     THEN handleParticipantLeaving(m, rm, socket, sessionId)
                     ELSE [map |-> m, out |-> <<>>]
             rest == DisconnectEach(step.map, rm, socket, Tail(keys))
         IN [map |-> rest.map, out |-> step.out \o rest.out]

\* socket.on('disconnect'): socket.io has already taken the socket out of its rooms
Disconnect(socket) ==
    /\ Unobserved
    /\ socket \in connected
    /\ connected' = connected \ {socket}
    /\ LET left == LeaveAll(rooms, socket)
           r == DisconnectEach(activeSessions, left, socket, MapKeys(activeSessions))
       IN /\ rooms' = left
          /\ activeSessions' = r.map
          /\ timers' = MarkEmptied(timers, activeSessions, r.map)
          /\ Record(Op("disconnect", socket, NoId), r.out)
    /\ UNCHANGED <<nextSocket, clock>>

\* ---- the HTTP diagnostics ---------------------------------------------------
\* a listing that leaves out the sessions that are not active
GetSessionsList_ActiveOnly(m) ==
    LET open == SelectSeq(m, LAMBDA e : e.session.active) IN
    [i \in 1..Len(open) |->
        [id |-> open[i].id, participants |-> Len(open[i].session.participants),
         host |-> open[i].session.host, active |-> open[i].session.active,
         createdAt |-> open[i].session.createdAt]]

\* app.get('/sessions'): the array it answers with
GetSessionsList(m) ==
    [i \in 1..Len(m) |->
        [id |-> m[i].id, participants |-> Len(m[i].session.participants),
         host |-> m[i].session.host, active |-> m[i].session.active,
         createdAt |-> m[i].session.createdAt]]

\* app.get('/sessions'): the answer goes to the HTTP client, to no socket
GetSessions ==
    /\ Unobserved
    /\ Record(Op("GET /sessions", 0, NoId),
              << [Ev("sessions", {}, NoId) EXCEPT !.list = GetSessionsList(activeSessions)] >>)
    /\ UNCHANGED <<nextSocket, connected, activeSessions, rooms, timers, clock>>

\* app.get('/sessions/:id'): the object it answers with (session: none or one entry)
GetSessionById(m, sessionId) ==
    IF MapHas(m, sessionId) /\ MapGet(m, sessionId).active
    THEN [exists |-> TRUE,
          session |-> << [id |-> sessionId,
                          participants |-> Len(MapGet(m, sessionId).participants),
                          active |-> TRUE] >>]
    ELSE [exists |-> FALSE, session |-> <<>>]

\* app.get('/sessions/:id')
GetSession(sessionId) ==
    /\ Unobserved
    /\ LET r == GetSessionById(activeSessions, sessionId) IN
       Record(Op("GET /sessions/:id", 0, sessionId),
              << [Ev("session", {}, NoId)
                    EXCEPT !.sid = sessionId,
                           !.status = IF r.exists THEN "exists" ELSE "absent",
                           !.list = r.session] >>)
    /\ UNCHANGED <<nextSocket, connected, activeSessions, rooms, timers, clock>>

\* a step of the server alone: no browser page changes
ServerOnly == UNCHANGED pages

Next ==
    \/ Connect /\ ServerOnly
    \/ \E s \in connected, id \in SessionIds : CreateSession(s, id) /\ ServerOnly
    \/ \E s \in connected, id \in SessionIds : CheckSession(s, id) /\ ServerOnly
    \/ \E s \in connected, id \in SessionIds : JoinSession(s, id) /\ ServerOnly
    \/ \E s \in connected, id \in InputIds : LeaveSession(s, id) /\ ServerOnly
    \/ \E s \in connected, id \in InputIds : CloseSession(s, id) /\ ServerOnly
    \/ TimerFire /\ ServerOnly
    \/ \E s \in connected, id \in InputIds, p \in Payloads : AudioChunk(s, p, id) /\ ServerOnly
    \/ \E s \in connected, id \in InputIds : RecordingStarted(s, id) /\ ServerOnly
    \/ \E s \in connected, id \in InputIds : StopRecording(s, id) /\ ServerOnly
    \/ \E s \in connected : Disconnect(s) /\ ServerOnly
    \/ GetSessions /\ ServerOnly
    \/ \E id \in SessionIds : GetSession(id) /\ ServerOnly

Spec == Init /\ [][Next]_vars

\* ---- the server without observation, timers firing -----------------------------
\* The handlers as above with no run put under observation, so that behaviours go on.
\* Node fires every pending setTimeout callback: the event loop runs the timers phase
\* again and again, so a pending callback is not postponed forever.
Unwatched == last' = NoOp

LiveNext ==
    \/ Connect /\ Unwatched /\ ServerOnly
    \/ \E s \in connected, id \in SessionIds : CreateSession(s, id) /\ Unwatched /\ ServerOnly
    \/ \E s \in connected, id \in SessionIds : CheckSession(s, id) /\ Unwatched /\ ServerOnly
    \/ \E s \in connected, id \in SessionIds : JoinSession(s, id) /\ Unwatched /\ ServerOnly
    \/ \E s \in connected, id \in InputIds : LeaveSession(s, id) /\ Unwatched /\ ServerOnly
    \/ \E s \in connected, id \in InputIds : CloseSession(s, id) /\ Unwatched /\ ServerOnly
    \/ TimerFire /\ Unwatched /\ ServerOnly
    \/ \E s \in connected, id \in InputIds, p \in Payloads : AudioChunk(s, p, id) /\ Unwatched /\ ServerOnly
    \/ \E s \in connected, id \in InputIds : RecordingStarted(s, id) /\ Unwatched /\ ServerOnly
    \/ \E s \in connected, id \in InputIds : StopRecording(s, id) /\ Unwatched /\ ServerOnly
    \/ \E s \in connected : Disconnect(s) /\ Unwatched /\ ServerOnly
    \/ GetSessions /\ Unwatched /\ ServerOnly
    \/ \E id \in SessionIds : GetSession(id) /\ Unwatched /\ ServerOnly

LiveSpec == Init /\ [][LiveNext]_vars /\ WF_vars(TimerFire /\ Unwatched /\ ServerOnly)

\* ---- the browser pages and the server together ---------------------------------
\* Pages emit into their outbox; the server handles the oldest message of a socket in a
\* handler run (the handlers above, observed so that `emitted` holds what they sent);
\* Deliver hands the emitted events to the sockets they are addressed to, before anything
\* else happens; each page runs its handlers on its inbox in order. Sessions are not
\* closed here.
\* startRecording is offered once per page
MaxRecordings == 1

\* the oldest message socket s has in flight to the server is a `name`
Sent(s, name) == pages[s].outbox # <<>> /\ Head(pages[s].outbox).ev = name

\* the variables of the server
ServerVars == <<nextSocket, connected, activeSessions, rooms, timers, clock>>

\* Index: the effect that runs at mount creates the socket
IndexPage == [NoPage EXCEPT !.component = "Index", !.mounted = TRUE]

\* RecordingPage at /recording/:sessionId: the socket effect creates the socket, its
\* 'connect' handler emits join-session, and the handlers it registers keep the
\* isRecording of the render that ran the effect
RecordingPageMount(sessionId, cameFrom) ==
    [NoPage EXCEPT !.component = "RecordingPage", !.mounted = TRUE,
                   !.sessionId = sessionId, !.cameFrom = cameFrom,
                   !.outbox = << Msg("join-session", sessionId) >>,
                   !.handlerIsRecording = NoPage.isRecording]

\* a browser opens the home page; the server accepts its socket
IndexMount ==
    /\ Connect /\ Unwatched
    /\ pages' = [pages EXCEPT ![nextSocket + 1] = IndexPage]

\* a browser opens the link of a session; the server accepts its socket
RecordingPageOpen(sessionId) ==
    /\ Connect /\ Unwatched
    /\ pages' = [pages EXCEPT ![nextSocket + 1] = RecordingPageMount(sessionId, 0)]

\* Index.createNewSession: uuidv4() gives an id that nobody holds
createNewSession(s, newSessionId) ==
    /\ Unobserved
    /\ pages[s].component = "Index" /\ pages[s].mounted
    /\ s \in connected
    /\ pages[s].sessionId = NoId
    /\ ~MapHas(activeSessions, newSessionId)
    /\ \A o \in Sockets : pages[o].sessionId # newSessionId
    /\ pages' = [pages EXCEPT ![s].sessionId = newSessionId,
                              ![s].outbox = Append(@, Msg("create-session", newSessionId))]
    /\ UNCHANGED <<ServerVars, emitted, last, pre>>

\* Index: the once('connection-successful') handler of createNewSession
IndexOn(p, e) ==
    IF e.ev = "connection-successful" /\ Truthy(p.sessionId)
    THEN [p EXCEPT !.navigating = TRUE]
    ELSE p

\* navigate('/recording/' + newSessionId): Index unmounts, its cleanup disconnects its
\* socket; RecordingPage mounts with a socket of its own
Navigate(s) ==
    /\ pages[s].component = "Index" /\ pages[s].mounted /\ pages[s].navigating
    /\ Connect /\ Unwatched
    /\ pages' = [pages EXCEPT
                   ![s] = [@ EXCEPT !.mounted = FALSE, !.inbox = <<>>],
                   ![nextSocket + 1] = RecordingPageMount(pages[s].sessionId, s)]

\* RecordingPage.stopRecording
stopRecording(p, emitEvent) ==
    IF p.isProcessingStop THEN p
    ELSE LET q == [p EXCEPT !.isProcessingStop = TRUE,
                            !.stopsRun = @ + 1,
                            !.outbox = IF emitEvent /\ Truthy(p.activeSessionId)
                                       THEN Append(@, Msg("stop-recording", p.activeSessionId))
                                       ELSE @]
         IN IF q.mediaRecorder = "recording"
            THEN [q EXCEPT !.stopTimers = @ + 1]
            ELSE [q EXCEPT !.isRecording = FALSE, !.isProcessingStop = FALSE]

\* RecordingPage: socket.on('stop-recording')
OnStopRecording(p) ==
    IF ~p.isProcessingStop /\ p.handlerIsRecording
    THEN stopRecording([p EXCEPT !.isProcessingStop = TRUE], FALSE)
    ELSE p

\* the events a page has a handler for that changes a field kept here. Left out:
\* RecordingPage's handlers of session-error, participant-joined, participant-left,
\* participants-list and audio-chunk, which change none of them; session-closed, which is
\* never sent here; recording-started and new-host, which no page has a handler for
Listens(p, e) ==
    \/ p.component = "Index" /\ e.ev = "connection-successful"
    \/ p.component = "RecordingPage" /\ e.ev \in {"connection-successful", "stop-recording"}

\* RecordingPage: the handlers of the socket effect
RecordingPageOn(p, e) ==
    CASE e.ev = "connection-successful" ->
            [p EXCEPT !.activeSessionId = e.sid, !.isHost = (e.role = "host"),
                      !.connectedToRoom = TRUE]
      [] e.ev = "stop-recording" -> OnStopRecording(p)
      [] OTHER -> p

\* a page runs the handler of the oldest event in its inbox
PageHandle(s) ==
    /\ Unobserved
    /\ pages[s].mounted
    /\ pages[s].inbox # <<>>
    /\ LET e == Head(pages[s].inbox)
           p == [pages[s] EXCEPT !.inbox = Tail(@)]
       IN pages' = [pages EXCEPT ![s] = IF p.component = "Index"
                                        THEN IndexOn(p, e) ELSE RecordingPageOn(p, e)]
    /\ UNCHANGED <<ServerVars, emitted, last, pre>>

\* RecordingPage.startRecording on a page that has a session id in its route: the Record
\* button is rendered once connection-successful has ended the loading screen
startRecording(s) ==
    /\ Unobserved
    /\ pages[s].component = "RecordingPage" /\ pages[s].mounted
    /\ s \in connected
    /\ pages[s].connectedToRoom
    /\ ~pages[s].isRecording
    /\ pages[s].recordings < MaxRecordings
    /\ pages' = [pages EXCEPT ![s] =
                   [@ EXCEPT !.activeSessionId = pages[s].sessionId,
                             !.mediaRecorder = "recording",
                             !.isRecording = TRUE,
                             !.isProcessingStop = FALSE,
                             !.recordings = @ + 1,
                             !.outbox = Append(@, Msg("recording-started", pages[s].sessionId))]]
    /\ UNCHANGED <<ServerVars, emitted, last, pre>>

\* the Stop Recording button, rendered while isRecording: stopRecording(true)
StopButton(s) ==
    /\ Unobserved
    /\ pages[s].component = "RecordingPage" /\ pages[s].mounted
    /\ pages[s].isRecording
    /\ pages' = [pages EXCEPT ![s] = stopRecording(@, TRUE)]
    /\ UNCHANGED <<ServerVars, emitted, last, pre>>

\* stopRecording: the callback of its setTimeout(..., 300)
StopTimeout(s) ==
    /\ Unobserved
    /\ pages[s].mounted
    /\ pages[s].stopTimers > 0
    /\ pages' = [pages EXCEPT ![s] =
                   IF @.mediaRecorder = "recording"
                   THEN [@ EXCEPT !.stopTimers = @ - 1, !.mediaRecorder = "inactive",
                                  !.isRecording = FALSE, !.isProcessingStop = FALSE]
                   ELSE [@ EXCEPT !.stopTimers = @ - 1]]
    /\ UNCHANGED <<ServerVars, emitted, last, pre>>

\* the server handles the oldest message of socket s
Handled(s) == pages' = [pages EXCEPT ![s].outbox = Tail(@)]

ServerCreateSession(s) ==
    /\ Sent(s, "create-session")
    /\ CreateSession(s, Head(pages[s].outbox).sid) /\ last' # NoOp
    /\ Handled(s)

ServerJoinSession(s) ==
    /\ Sent(s, "join-session")
    /\ JoinSession(s, Head(pages[s].outbox).sid) /\ last' # NoOp
    /\ Handled(s)

ServerRecordingStarted(s) ==
    /\ Sent(s, "recording-started")
    /\ RecordingStarted(s, Head(pages[s].outbox).sid) /\ last' # NoOp
    /\ Handled(s)

ServerStopRecording(s) ==
    /\ Sent(s, "stop-recording")
    /\ StopRecording(s, Head(pages[s].outbox).sid) /\ last' # NoOp
    /\ Handled(s)

\* the server learns that an unmounted page's socket is closed, after the messages the
\* page sent on it
ServerDisconnect(s) ==
    /\ pages[s].component # "none" /\ ~pages[s].mounted
    /\ pages[s].outbox = <<>>
    /\ Disconnect(s) /\ last' # NoOp
    /\ UNCHANGED pages

\* the events of the last handler run reach the sockets they were emitted to; a socket the
\* page has closed receives nothing, and an event nothing listens to is dropped
Deliver ==
    /\ last # NoOp
    /\ pages' = [s \in Sockets |->
                   IF pages[s].mounted /\ s \in connected
                   THEN [pages[s] EXCEPT
                           !.inbox = @ \o SelectSeq(emitted,
                                                    LAMBDA e : s \in e.to /\ Listens(pages[s], e))]
                   ELSE pages[s]]
    /\ last' = NoOp
    /\ emitted' = <<>>
    /\ pre' = <<>>
    /\ UNCHANGED ServerVars

ClientNext ==
    \/ IndexMount
    \/ \E id \in SessionIds : RecordingPageOpen(id)
    \/ \E s \in Sockets, id \in SessionIds : createNewSession(s, id)
    \/ \E s \in Sockets : Navigate(s)
    \/ \E s \in Sockets : PageHandle(s)
    \/ \E s \in Sockets : startRecording(s)
    \/ \E s \in Sockets : StopButton(s)
    \/ \E s \in Sockets : StopTimeout(s)
    \/ \E s \in Sockets : ServerCreateSession(s)
    \/ \E s \in Sockets : ServerJoinSession(s)
    \/ \E s \in Sockets : ServerRecordingStarted(s)
    \/ \E s \in Sockets : ServerStopRecording(s)
    \/ \E s \in Sockets : ServerDisconnect(s)
    \/ Deliver

ClientSpec == Init /\ [][ClientNext]_vars

\* ---- properties -------------------------------------------------------------
\* the session the observed handler found under id, and the one it left
Before(id) == MapGet(pre, id)

After(id) == MapGet(activeSessions, id)

\* the observed handler took last.socket out of the session it found under id
Departed(id) ==
    /\ last.op \in {"leave-session", "disconnect"}
    /\ last.op = "leave-session" => last.sessionId = id
    /\ last.socket \in Members(pre, id)

\* C1: a create-session(id) from connection B that finds a session for id with another
\* host A leaves that session as it found it: host A, A still a member.
C1_IdempotentCreate ==
    (/\ last.op = "create-session"
     /\ MapHas(pre, last.sessionId)
     /\ Before(last.sessionId).host # last.socket)
    => /\ MapHas(activeSessions, last.sessionId)
       /\ After(last.sessionId).host = Before(last.sessionId).host
       /\ Before(last.sessionId).host \in Members(activeSessions, last.sessionId)

\* C2: an audio-chunk for session id is delivered only to connections that are in the
\* member set of the session registered under id when it is forwarded.
C2_NoStaleFanout ==
    last.op = "audio-chunk"
    => \A i \in 1..Len(emitted) :
          emitted[i].ev = "audio-chunk" => emitted[i].to \subseteq Members(pre, last.sessionId)

\* C3: an audio-chunk sent by a member A of an Active session reaches every other member
\* of that session with the payload A sent, and no audio-chunk ever returns to its sender.
C3_FanoutComplete ==
    last.op = "audio-chunk"
    => /\ \A i \in 1..Len(emitted) : last.socket \notin emitted[i].to
       /\ (CheckSessionExists(pre, last.sessionId)
           /\ last.socket \in Members(pre, last.sessionId))
          => \E i \in 1..Len(emitted) :
                /\ emitted[i].ev = "audio-chunk"
                /\ emitted[i].payload = last.payload
                /\ Members(pre, last.sessionId) \ {last.socket} \subseteq emitted[i].to

\* the case of C3: a member of an Active session of three sends a chunk
C3_Witness ==
    /\ last.op = "audio-chunk"
    /\ CheckSessionExists(pre, last.sessionId)
    /\ last.socket \in Members(pre, last.sessionId)
    /\ Cardinality(Members(pre, last.sessionId)) = 3

\* C4: the host of every Active session of the registry is one of its members.
C4_HostIsMember ==
    \A i \in 1..Len(activeSessions) :
        activeSessions[i].session.active
        => SetHas(activeSessions[i].session.participants, activeSessions[i].session.host)

\* the case of C4: the host of an Active session departed and members remain
C4_Witness ==
    \E id \in SessionIds :
        /\ Departed(id)
        /\ Before(id).host = last.socket
        /\ MapHas(activeSessions, id)
        /\ After(id).active

\* C5: no session of the registry has an empty member set, and a leave-session or a
\* disconnect that takes the last member out of a session (Active or Closing) deletes
\* the entry in that step, so that check-session(id) answers exists=false right after.
C5_EmptySessionRemoved ==
    /\ \A i \in 1..Len(activeSessions) : Len(activeSessions[i].session.participants) > 0
    /\ \A id \in SessionIds :
          (Departed(id) /\ Members(pre, id) = {last.socket})
          => /\ ~MapHas(activeSessions, id)
             /\ ~CheckSessionExists(activeSessions, id)

\* the case of C5: the last member of a Closing session leaves while its timer is pending
C5_Witness ==
    /\ last.op = "leave-session"
    /\ Departed(last.sessionId)
    /\ Members(pre, last.sessionId) = {last.socket}
    /\ ~Before(last.sessionId).active
    /\ timers # <<>>

\* C6: the member set is the set of connections that created or joined the session and
\* have not left or disconnected; stated on one step: a create-session or a join-session,
\* which is nobody's departure, takes no member out of any session it found.
C6_MembersMatchHistory ==
    last.op \in {"create-session", "join-session"}
    => \A id \in SessionIds : Members(pre, id) \subseteq Members(activeSessions, id)

\* C7: the timer of a closed session that was emptied, whose id was then reused by a
\* fresh session, changes nothing when it fires.
C7_StaleTimerNoOp ==
    (/\ last.op = "timeout"
     /\ last.timer.emptied
     /\ last.timer.reused
     /\ MapHas(pre, last.sessionId))
    => activeSessions = pre

\* C8: once every member of a closed session has left and nobody has created the id again,
\* the registry has no entry for the id, and the timer's fire throws nothing, changes
\* nothing and leaves no entry for the id.
C8_CloseThenEmpty ==
    /\ \A i \in 1..Len(timers) :
          (timers[i].emptied /\ ~timers[i].reused)
          => ~MapHas(activeSessions, timers[i].sessionId)
    /\ (last.op = "timeout" /\ last.timer.emptied /\ ~last.timer.reused)
       => /\ ~last.threw
          /\ activeSessions = pre
          /\ ~MapHas(activeSessions, last.sessionId)

\* the case of C8: the timer of a closed and then emptied session has fired
C8_Witness ==
    /\ last.op = "timeout"
    /\ last.timer.emptied
    /\ ~last.timer.reused

\* C9: when member M leaves by leave-session and members remain, participant-left{M} is
\* delivered to exactly the remaining members.
C9_LeftToRemainingOnly ==
    (/\ last.op = "leave-session"
     /\ Departed(last.sessionId)
     /\ Members(activeSessions, last.sessionId) # {})
    => \E i \in 1..Len(emitted) :
          /\ emitted[i].ev = "participant-left"
          /\ emitted[i].who = last.socket
          /\ emitted[i].to = Members(activeSessions, last.sessionId)

\* C10: when a member departs and members remain, the session stays with the same
\* lifecycle flag and the remaining members; if the departed was the host, the first
\* remaining member in insertion order becomes host and new-host naming it is sent to the
\* session's room, reaching every remaining member; otherwise the host stays and no
\* new-host is sent to the room.
C10_HostReassignment ==
    \A id \in SessionIds :
        (Departed(id) /\ Members(pre, id) # {last.socket})
        => LET remaining == SetDelete(Before(id).participants, last.socket)
               newHosts == {i \in 1..Len(emitted) :
                               emitted[i].ev = "new-host" /\ emitted[i].room = id}
           IN /\ MapHas(activeSessions, id)
              /\ After(id).active = Before(id).active
              /\ After(id).createdAt = Before(id).createdAt
              /\ After(id).participants = remaining
              /\ IF Before(id).host = last.socket
                 THEN /\ After(id).host = remaining[1]
                      /\ Cardinality(newHosts) = 1
                      /\ \A i \in newHosts :
                            /\ emitted[i].who = remaining[1]
                            /\ Range(remaining) \subseteq emitted[i].to
                 ELSE /\ After(id).host = Before(id).host
                      /\ newHosts = {}

\* the case of C10: the host of a session of three departed
C10_Witness ==
    \E id \in SessionIds :
        /\ Departed(id)
        /\ Before(id).host = last.socket
        /\ Len(Before(id).participants) = 3
        /\ \E i \in 1..Len(emitted) : emitted[i].ev = "new-host"

\* C11: a join-session(id) that finds the session under id closed by its host (in the
\* registry, not active) sends the sender session-error SESSION_CLOSED and nothing else:
\* no connection-successful, participant-joined or participants-list; the registry, and
\* with it the session's members and host, stays as it was.
C11_JoinClosingRejected ==
    (/\ last.op = "join-session"
     /\ MapHas(pre, last.sessionId)
     /\ ~Before(last.sessionId).active)
    => /\ activeSessions = pre
       /\ Len(emitted) = 1
       /\ emitted[1].ev = "session-error"
       /\ emitted[1].status = "SESSION_CLOSED"
       /\ emitted[1].to = {last.socket}

\* the case of C11: a connection that is not a member joins a closed session
C11_Witness ==
    /\ last.op = "join-session"
    /\ MapHas(pre, last.sessionId)
    /\ ~Before(last.sessionId).active
    /\ last.socket \notin Members(pre, last.sessionId)

\* C12: a close-session(id) from a connection that is not the host of the session under
\* id changes nothing (registry, pending timers and rooms stay as they were, so no timer
\* is scheduled) and emits exactly one event: session-error NOT_SESSION_HOST to the sender.
C12_HostOnlyClose ==
    [][(/\ last'.op = "close-session"
        /\ MapHas(activeSessions, last'.sessionId)
        /\ MapGet(activeSessions, last'.sessionId).host # last'.socket)
       => /\ activeSessions' = activeSessions
          /\ timers' = timers
          /\ rooms' = rooms
          /\ Len(emitted') = 1
          /\ emitted'[1].ev = "session-error"
          /\ emitted'[1].status = "NOT_SESSION_HOST"
          /\ emitted'[1].to = {last'.socket}]_vars

\* the case of C12: a member that is not the host asks to close an Active session
C12_Witness ==
    /\ last.op = "close-session"
    /\ MapHas(pre, last.sessionId)
    /\ Before(last.sessionId).active
    /\ Before(last.sessionId).host # last.socket
    /\ last.socket \in Members(pre, last.sessionId)

\* C13: a join-session(id) that finds no session under id registers a new Active session
\* whose host and only member is the sender, leaves the other sessions alone, and emits
\* exactly one event: connection-successful to the sender with role host and status
\* created-on-join (so no session-error, participant-joined or participants-list).
C13_CreateOnJoin ==
    (/\ last.op = "join-session"
     /\ ~MapHas(pre, last.sessionId))
    => /\ MapHas(activeSessions, last.sessionId)
       /\ After(last.sessionId).active
       /\ After(last.sessionId).host = last.socket
       /\ After(last.sessionId).participants = <<last.socket>>
       /\ MapDelete(activeSessions, last.sessionId) = pre
       /\ Len(emitted) = 1
       /\ emitted[1].ev = "connection-successful"
       /\ emitted[1].to = {last.socket}
       /\ emitted[1].sid = last.sessionId
       /\ emitted[1].role = "host"
       /\ emitted[1].status = "created-on-join"

\* the case of C13: a join for an absent id while another session is registered
C13_Witness ==
    /\ last.op = "join-session"
    /\ ~MapHas(pre, last.sessionId)
    /\ pre # <<>>

\* C14: check-session(id) leaves the registry as it was and emits exactly one event, the
\* reply to the sender, which says exists exactly when pre holds an active session under id.
C14_CheckSessionReadOnly ==
    last.op = "check-session"
    => /\ activeSessions = pre
       /\ Len(emitted) = 1
       /\ emitted[1].ev = "check-session-reply"
       /\ emitted[1].to = {last.socket}
       /\ emitted[1].status \in {"exists", "absent"}
       /\ emitted[1].status = "exists"
          <=> (MapHas(pre, last.sessionId) /\ Before(last.sessionId).active)

\* the case of C14: check-session for a session closed by its host, others connected
C14_Witness ==
    /\ last.op = "check-session"
    /\ MapHas(pre, last.sessionId)
    /\ ~Before(last.sessionId).active
    /\ Cardinality(connected) >= 2

\* C15: a close-session(id) that finds the session under id already closed changes no
\* state and emits nothing (no second session-closed, no session-error, whoever sends
\* it), and schedules no further timer: no two pending timers are for the same session.
C15_DuplicateCloseNoOp ==
    /\ (/\ last.op = "close-session"
        /\ MapHas(pre, last.sessionId)
        /\ ~Before(last.sessionId).active)
       => (activeSessions = pre /\ emitted = <<>>)
    /\ \A i, j \in 1..Len(timers) :
          (/\ timers[i].sessionId = timers[j].sessionId
           /\ timers[i].scheduledFor = timers[j].scheduledFor) => i = j

\* the events C16 is about
SessionEvents ==
    {"leave-session", "close-session", "audio-chunk", "recording-started", "stop-recording"}

\* C16: leave-session, close-session, audio-chunk, recording-started and stop-recording
\* for an id with no session in the registry leave the registry as it was and emit
\* nothing, neither to the sender nor to anyone else.
C16_AbsentSessionNoOp ==
    (/\ last.op \in SessionEvents
     /\ ~MapHas(pre, last.sessionId))
    => (activeSessions = pre /\ emitted = <<>>)

\* the case of C16: an audio-chunk for the id of a removed session whose room still holds
\* another connection
C16_Witness ==
    /\ last.op = "audio-chunk"
    /\ Truthy(last.sessionId)
    /\ ~MapHas(pre, last.sessionId)
    /\ IoTo(rooms, last.sessionId) \ {last.socket} # {}

\* C17 as stated: no connection is in the member sets of two sessions.
C17_AtMostOneSession ==
    \A i, j \in 1..Len(activeSessions) :
        Range(activeSessions[i].session.participants)
          \cap Range(activeSessions[j].session.participants) # {} => i = j

\* C17, amended: a connection may be a member of several sessions, one for each id it
\* sent create-session or join-session for; it is in each member set at most once, and
\* only in member sets of sessions whose room it joined by its own create or join.
C17_MemberOfOwnSessions ==
    \A i \in 1..Len(activeSessions) :
        LET participants == activeSessions[i].session.participants IN
        /\ \A k, l \in 1..Len(participants) : participants[k] = participants[l] => k = l
        /\ Range(participants) \subseteq IoTo(rooms, activeSessions[i].id)

\* the case of C17: one connection is a member of two sessions, and a member joins again
C17_Witness ==
    /\ last.op = "join-session"
    /\ last.socket \in Members(pre, last.sessionId)
    /\ \E id \in SessionIds \ {last.sessionId} : last.socket \in Members(activeSessions, id)

\* C18: a connection that has disconnected is a member of no session and the host of no
\* session, right after its disconnect and in every later state.
C18_DisconnectCleanup ==
    \A i \in 1..Len(activeSessions) :
        /\ Range(activeSessions[i].session.participants) \subseteq connected
        /\ activeSessions[i].session.host \in connected

\* the case of C18: a connection disconnects that was the only member of the first
\* session of the registry (deleted during the enumeration) and a member of the second
C18_Witness ==
    /\ last.op = "disconnect"
    /\ Len(pre) = 2
    /\ pre[1].session.participants = <<last.socket>>
    /\ SetHas(pre[2].session.participants, last.socket)
    /\ Len(pre[2].session.participants) >= 2

\* C19: every session-error is delivered to the connection whose event caused it and to
\* no other, and the handler that emitted it left the registry as it was.
C19_ErrorsToOriginatorOnly ==
    \A i \in 1..Len(emitted) :
        emitted[i].ev = "session-error"
        => /\ emitted[i].to = {last.socket}
           /\ emitted[i].status \in {"SESSION_CLOSED", "NOT_SESSION_HOST"}
           /\ activeSessions = pre

\* the case of C19: a session-error is emitted while the room of the session holds
\* another connection
C19_Witness ==
    /\ Len(emitted) = 1
    /\ emitted[1].ev = "session-error"
    /\ IoTo(rooms, last.sessionId) \ {last.socket} # {}

\* C20: a create-session(id) or join-session(id) that finds no session under id yields an
\* Active session whose host and only member is the caller, and the connections of an
\* earlier session of id get none of its events: the room the new session's events are
\* sent to holds the caller alone.
C20_FreshAfterRemoval ==
    (/\ last.op \in {"create-session", "join-session"}
     /\ ~MapHas(pre, last.sessionId))
    => /\ MapHas(activeSessions, last.sessionId)
       /\ After(last.sessionId).active
       /\ After(last.sessionId).host = last.socket
       /\ After(last.sessionId).participants = <<last.socket>>
       /\ IoTo(rooms, last.sessionId) = {last.socket}

\* C21: an audio-chunk for id from a connection that is not in the member set of the
\* session under id is forwarded to no connection.
C21_AudioNeedsMembership ==
    (/\ last.op = "audio-chunk"
     /\ last.socket \notin Members(pre, last.sessionId))
    => \A i \in 1..Len(emitted) : emitted[i].to = {}

\* C22: once the host's close-session(id) has been processed and as long as id has not
\* been removed, an audio-chunk for id is dropped: a handler that found the session under
\* id closed either emitted nothing for an audio-chunk, or, if it left id in the
\* registry, left it so that an audio-chunk for id from any connection is dropped.
C22_NoAudioAfterClose ==
    (/\ last # NoOp
     /\ MapHas(pre, last.sessionId)
     /\ ~Before(last.sessionId).active)
    => /\ last.op = "audio-chunk" => emitted = <<>>
       /\ MapHas(activeSessions, last.sessionId)
          => \A s \in connected, p \in Payloads :
                AudioChunkOut(activeSessions, rooms, s, p, last.sessionId) = <<>>

\* the events C23 is about
RelayEvents == {"audio-chunk", "recording-started", "stop-recording"}

\* C23: a handler run for audio-chunk, recording-started or stop-recording leaves the
\* registry (entries, members, hosts, active flags, creation times) and the pending
\* timers exactly as they were.
C23_RelayLeavesRegistry ==
    [][last'.op \in RelayEvents
       => (activeSessions' = activeSessions /\ timers' = timers)]_vars

\* the case of C23: stop-recording from a member of an Active session of two while a
\* timer is pending
C23_Witness ==
    /\ last.op = "stop-recording"
    /\ CheckSessionExists(pre, last.sessionId)
    /\ last.socket \in Members(pre, last.sessionId)
    /\ Cardinality(Members(pre, last.sessionId)) >= 2
    /\ timers # <<>>

\* C24: recording-started(id) from a member M emits participant-recording naming M to
\* every member but M; stop-recording(id) from a member emits stop-recording to every
\* member, the sender included; from a connection that is not a member of the session
\* under id either event emits nothing.
C24_RecordingSignals ==
    /\ (last.op = "recording-started" /\ last.socket \in Members(pre, last.sessionId))
       => \E i \in 1..Len(emitted) :
             /\ emitted[i].ev = "participant-recording"
             /\ emitted[i].who = last.socket
             /\ Members(pre, last.sessionId) \ {last.socket} \subseteq emitted[i].to
             /\ last.socket \notin emitted[i].to
    /\ (last.op = "stop-recording" /\ last.socket \in Members(pre, last.sessionId))
       => \E i \in 1..Len(emitted) :
             /\ emitted[i].ev = "stop-recording"
             /\ Members(pre, last.sessionId) \subseteq emitted[i].to
    /\ (/\ last.op \in {"recording-started", "stop-recording"}
        /\ last.socket \notin Members(pre, last.sessionId))
       => emitted = <<>>

\* C25: a session a handler found closed is, if that handler left its id in the
\* registry, still closed afterwards: no create-session or join-session (nor any other
\* event) makes the entry of a closed id Active again.
C25_LifecycleOneWay ==
    \A id \in SessionIds :
        (/\ last # NoOp
         /\ MapHas(pre, id)
         /\ ~Before(id).active
         /\ MapHas(activeSessions, id))
        => ~After(id).active

\* C26: a join-session(id) from J that finds an Active session with members M and host H
\* makes the members M with J, keeps H as host, emits connection-successful with role
\* participant and host H and a participants-list of M without J to J, and emits
\* participant-joined naming J to exactly the members in M other than J.
C26_SuccessfulJoin ==
    (/\ last.op = "join-session"
     /\ MapHas(pre, last.sessionId)
     /\ Before(last.sessionId).active)
    => /\ Members(activeSessions, last.sessionId)
            = Members(pre, last.sessionId) \cup {last.socket}
       /\ After(last.sessionId).host = Before(last.sessionId).host
       /\ \E i \in 1..Len(emitted) :
             /\ emitted[i].ev = "connection-successful"
             /\ emitted[i].to = {last.socket}
             /\ emitted[i].role = "participant"
             /\ emitted[i].who = Before(last.sessionId).host
       /\ \E i \in 1..Len(emitted) :
             /\ emitted[i].ev = "participants-list"
             /\ emitted[i].to = {last.socket}
             /\ Range(emitted[i].list) = Members(pre, last.sessionId) \ {last.socket}
       /\ \E i \in 1..Len(emitted) :
             /\ emitted[i].ev = "participant-joined"
             /\ emitted[i].who = last.socket
             /\ emitted[i].to = Members(pre, last.sessionId) \ {last.socket}

\* the session created at time k is registered under id
Present(id, k) == MapHas(activeSessions, id) /\ MapGet(activeSessions, id).createdAt = k

\* C27: a session closed by its host is eventually no longer in the registry, whatever
\* is processed in between, given that pending timers fire.
C27_ClosingEventuallyEnds ==
    \A id \in SessionIds, k \in 1..MaxClock :
        (Present(id, k) /\ ~MapGet(activeSessions, id).active) ~> ~Present(id, k)

\* the case of C27: a closed session with two members is in the registry, its host has
\* sent close-session twice and both timers are pending
C27_Witness ==
    \E id \in SessionIds :
        /\ MapHas(activeSessions, id)
        /\ ~MapGet(activeSessions, id).active
        /\ Len(MapGet(activeSessions, id).participants) >= 2
        /\ Len(timers) = 2
        /\ \A i \in 1..2 : timers[i].sessionId = id

\* the events of out, each with its recipients cut down to the connections in keep
ToOnly(out, keep) == [i \in 1..Len(out) |-> [out[i] EXCEPT !.to = @ \cap keep]]

\* C28: for every session id the disconnecting connection c was a member of, the
\* disconnect leaves session id as a leave-session(id) from c would have left it (same
\* presence in the registry, members and host) and delivers the same participant-left and
\* new-host events for id, in the same order, to the same remaining members. The leave is
\* computed from the registry the disconnect started from, with c still in the room of id.
C28_DisconnectIsLeave ==
    last.op = "disconnect"
    => \A id \in SessionIds :
          last.socket \in Members(pre, id)
          => LET leave == LeaveSessionResult(pre, SocketJoin(rooms, last.socket, id),
                                             last.socket, id)
                 remaining == Members(leave.map, id)
             IN /\ MapHas(activeSessions, id) <=> MapHas(leave.map, id)
                /\ MapHas(activeSessions, id) => After(id) = MapGet(leave.map, id)
                /\ ToOnly(SelectSeq(emitted, LAMBDA e : e.room = id), remaining)
                     = ToOnly(leave.out, remaining)

\* the case of C28: the connection that disconnects was the only member of the first
\* session of the registry and the host of the second, which keeps a member
C28_Witness ==
    /\ last.op = "disconnect"
    /\ Len(pre) = 2
    /\ pre[1].session.participants = <<last.socket>>
    /\ pre[2].session.host = last.socket
    /\ Len(pre[2].session.participants) >= 2
    /\ \E i \in 1..Len(emitted) : emitted[i].ev = "new-host"

\* C29: a leave-session(id) from a connection that is not in the member set of the
\* session under id changes nothing in the registry and emits nothing, so no
\* participant-left and no new-host.
C29_LeaveNeedsMembership ==
    (/\ last.op = "leave-session"
     /\ last.socket \notin Members(pre, last.sessionId))
    => (activeSessions = pre /\ emitted = <<>>)

\* C30: a close-session(id) from the host of an Active session emits exactly one
\* session-closed naming id, delivered to every member (the host included); the registry
\* is as before except that the session under id is not active (same members, host and
\* creation time); and the pending timers are as before with one more, for id, at the end.
C30_CloseByHost ==
    [][(/\ last'.op = "close-session"
        /\ MapHas(activeSessions, last'.sessionId)
        /\ MapGet(activeSessions, last'.sessionId).host = last'.socket
        /\ MapGet(activeSessions, last'.sessionId).active)
       => /\ Len(emitted') = 1
          /\ emitted'[1].ev = "session-closed"
          /\ emitted'[1].sid = last'.sessionId
          /\ Members(activeSessions, last'.sessionId) \subseteq emitted'[1].to
          /\ MapKeys(activeSessions') = MapKeys(activeSessions)
          /\ \A id \in SessionIds \ {last'.sessionId} :
                MapHas(activeSessions, id)
                => MapGet(activeSessions', id) = MapGet(activeSessions, id)
          /\ MapGet(activeSessions', last'.sessionId)
               = [MapGet(activeSessions, last'.sessionId) EXCEPT !.active = FALSE]
          /\ Len(timers') = Len(timers) + 1
          /\ SubSeq(timers', 1, Len(timers)) = timers
          /\ timers'[Len(timers')].sessionId = last'.sessionId]_vars

\* the case of C30: the host of an Active session of three closes it while another
\* timer is pending
C30_Witness ==
    /\ last.op = "close-session"
    /\ MapHas(pre, last.sessionId)
    /\ Before(last.sessionId).active
    /\ Before(last.sessionId).host = last.socket
    /\ Len(Before(last.sessionId).participants) = 3
    /\ Len(timers) = 2

\* C31: GET /sessions answers with one entry per entry of the registry, in its order,
\* closed sessions included, each with the id, the number of members, the host and the
\* active flag of its session; GET /sessions/:id answers exists exactly when
\* check-session(id) would; neither changes the registry.
C31_DiagnosticsReadOnly ==
    /\ last.op = "GET /sessions"
       => /\ activeSessions = pre
          /\ Len(emitted) = 1
          /\ Len(emitted[1].list) = Len(pre)
          /\ \A i \in 1..Len(pre) :
                /\ emitted[1].list[i].id = pre[i].id
                /\ emitted[1].list[i].participants = Cardinality(Members(pre, pre[i].id))
                /\ emitted[1].list[i].host = pre[i].session.host
                /\ emitted[1].list[i].active = pre[i].session.active
    /\ last.op = "GET /sessions/:id"
       => /\ activeSessions = pre
          /\ Len(emitted) = 1
          /\ emitted[1].status \in {"exists", "absent"}
          /\ emitted[1].status = "exists" <=> CheckSessionExists(pre, last.sessionId)

\* the case of C31: the listing is asked for while the registry holds a closed session
\* of two members and an Active one
C31_Witness ==
    /\ last.op = "GET /sessions"
    /\ Len(pre) = 2
    /\ \E i \in 1..2 : ~pre[i].session.active /\ Len(pre[i].session.participants) = 2
    /\ \E i \in 1..2 : pre[i].session.active

\* C32: in every connection-successful event for session id, the role is host exactly
\* when the connection it is sent to is the host of the session registered under id.
C32_RoleMatchesRegistry ==
    \A i \in 1..Len(emitted) :
        emitted[i].ev = "connection-successful"
        => /\ emitted[i].to = {last.socket}
           /\ MapHas(activeSessions, emitted[i].sid)
           /\ emitted[i].role = "host" <=> After(emitted[i].sid).host = last.socket

\* the events the observed handler emitted to the room of id, in emission order
EmittedFor(id) == SelectSeq(emitted, LAMBDA e : e.room = id)

\* C33: when the host of a session that keeps members leaves or disconnects, the events
\* for the session are participant-left naming the old host and then new-host, each
\* delivered to every remaining member; when the last member departs, participant-left is
\* the only event for the session and there is no new-host.
C33_DepartureOrdering ==
    \A id \in SessionIds :
        Departed(id)
        => /\ (Before(id).host = last.socket /\ Members(pre, id) # {last.socket})
              => /\ Len(EmittedFor(id)) = 2
                 /\ EmittedFor(id)[1].ev = "participant-left"
                 /\ EmittedFor(id)[1].who = last.socket
                 /\ EmittedFor(id)[2].ev = "new-host"
                 /\ \A i \in 1..2 :
                       Members(pre, id) \ {last.socket} \subseteq EmittedFor(id)[i].to
           /\ Members(pre, id) = {last.socket}
              => /\ Len(EmittedFor(id)) = 1
                 /\ EmittedFor(id)[1].ev = "participant-left"
                 /\ EmittedFor(id)[1].who = last.socket

\* the case of C33: a connection disconnects that was the last member of one session and
\* the host of another that keeps two members
C33_Witness ==
    /\ last.op = "disconnect"
    /\ \E id \in SessionIds : Members(pre, id) = {last.socket}
    /\ \E id \in SessionIds :
          /\ MapHas(pre, id)
          /\ Before(id).host = last.socket
          /\ Cardinality(Members(pre, id)) = 3

\* C34: a user who creates a session on the home page and is taken to the recording page
\* ends up as the host: once the server has handled both the disconnect of the home
\* page's socket and the join-session of the recording page's socket, in whichever order,
\* and the recording page has run the handlers of everything it was sent, the recording
\* page's socket is the host in the registry and the page holds isHost (no other
\* connection being a member of the session)
C34_CreatorEndsUpHost ==
    \A b \in Sockets :
        LET p == pages[b] IN
        ( /\ p.component = "RecordingPage" /\ p.mounted
          /\ p.cameFrom # 0
          /\ p.cameFrom \notin connected
          /\ b \in connected
          /\ p.connectedToRoom
          /\ p.inbox = <<>>
          /\ last = NoOp
          /\ Members(activeSessions, p.sessionId) \subseteq {b} )
        => /\ MapHas(activeSessions, p.sessionId)
           /\ MapGet(activeSessions, p.sessionId).host = b
           /\ p.isHost

\* the step in which page s runs its handler of a stop-recording event
HandlesStopRecording(s) ==
    /\ pages[s].component = "RecordingPage"
    /\ pages[s].mounted
    /\ pages[s].inbox # <<>>
    /\ Head(pages[s].inbox).ev = "stop-recording"
    /\ pages'[s].inbox = Tail(pages[s].inbox)

\* C35: a page that is recording and has not pressed stop itself, when it handles a
\* stop-recording event (so one that another participant caused), runs stopRecording: the
\* stop of its recorder is scheduled; and a page whose own stop is in progress or done does
\* not run stopRecording again when it handles a stop-recording event (the echo of its own)
C35_RemoteStopTakesEffect ==
    [][\A s \in Sockets :
         HandlesStopRecording(s) =>
            /\ ( /\ pages[s].mediaRecorder = "recording"
                 /\ pages[s].isRecording
                 /\ ~pages[s].isProcessingStop )
               => /\ pages'[s].stopsRun = pages[s].stopsRun + 1
                  /\ pages'[s].stopTimers = pages[s].stopTimers + 1
            /\ ( pages[s].isProcessingStop \/ ~pages[s].isRecording )
               => pages'[s].stopsRun = pages[s].stopsRun]_vars

====
